---- MODULE Spec2Model ----
(***************************************************************************)
(* Optimistic-sync core of the notes front end: the App component of       *)
(* notes_frontend (its React state, its command handlers and the            *)
(* continuations of their remote calls) over the notes REST client.        *)
(*                                                                         *)
(* A step of the model is one run of a handler or of a promise             *)
(* continuation up to its next await, followed by React's commit of the    *)
(* batched state updates and by the passive selection effect, which React  *)
(* flushes before it runs any later handler.  A handler therefore reads    *)
(* the state of the latest commit; what a continuation reads after its     *)
(* await is what its closure captured when the command ran.                *)
(*                                                                         *)
(* Commands are offered as the view offers them: New in every status,     *)
(* select, delete and edit in the ready status, Retry in the error status. *)
(* The outcome of a remote call is any of: success with an entity or list, *)
(* BackendUnavailableError, ApiError.                                      *)
(*                                                                         *)
(* The REST client (api/notesApi.js) is modelled on its own, one call of   *)
(* one of its methods at a time, under ApiSpec: validation, the attempts   *)
(* of requestJsonWithRetries with their classification, the backoff, the   *)
(* shared abort controller, and the check of the response shape.  Its      *)
(* steps are the macrotasks of the call: what runs between two awaits of   *)
(* fetch, of the body or of sleep is one step, and an abort (a timer or an *)
(* event) comes between steps.                                             *)
(*                                                                         *)
(* The pure helper getNoteDisplayTitle is applied, under TitleSpec, to     *)
(* notes whose title and content are sequences of characters.              *)
(*                                                                         *)
(* The transient notice is followed with its timers under ToastSpec: the   *)
(* calls of showToast by the handlers, the timers of window.setTimeout     *)
(* that are pending, and what toastTimeoutRef holds.                       *)
(***************************************************************************)
EXTENDS Integers, Sequences, FiniteSets, TLC

VARIABLES
    status,          \* useState('loading'): 'loading' | 'ready' | 'error'
    errorMessage,    \* useState('')
    notes,           \* useState([]): the working set, a sequence of notes
    selectedNoteId,  \* useState(null)
    isOfflineMode,   \* useState(false)
    toastMessage,    \* useState(''): the transient notice
    toastArmed,      \* a timer set by showToast is pending
    mounted,         \* the flag of the initial-load effect
    inflight,        \* remote calls awaiting their outcome
    nextOp,          \* number of the next command of the view (the initial load is 1)
    clock,           \* the last value read from Date.now()
    lastEvent,       \* history: the handler that ran last
    controllerAborted, \* controller.signal.aborted, the controller of the load effect
    confirmed,       \* history: the updates the remote confirmed, in order
    reconciled,      \* history: the creates the remote confirmed, in order
    \* one call of a method of the REST client
    call,            \* the method and its arguments, the options of the client
    pc,              \* where the call is: called, fetching, body, sleeping, done
    attempt,         \* the loop variable of requestJsonWithRetries
    aborted,         \* timeoutController.signal.aborted
    timerPending,    \* the timeout timer is set and has neither fired nor been cleared
    listening,       \* onExternalAbort is registered on the caller's signal
    resStatus,       \* res.status of the response whose body is being read
    outcome,         \* what the method returned or threw
    fetches,         \* history: number of calls of fetch()
    log,             \* history: how each attempt ended
    slept,           \* history: the delays passed to sleep()
    \* one application of getNoteDisplayTitle
    note,            \* the argument: title and content
    shown,           \* what the calls returned, in order
    \* the timers of the transient notice
    timers,          \* the pending timers of window.setTimeout, by id
    toastTimeoutRef, \* useRef(0): the id of the timer set last
    notice,          \* history: number of calls of showToast
    fired            \* history: the timers that fired, in order

appVars == <<status, errorMessage, notes, selectedNoteId, isOfflineMode,
             toastMessage, toastArmed, mounted, inflight, nextOp, clock,
             lastEvent, controllerAborted, confirmed, reconciled>>

apiVars == <<call, pc, attempt, aborted, timerPending, listening, resStatus,
             outcome, fetches, log, slept>>

titleVars == <<note, shown>>

toastVars == <<timers, toastTimeoutRef, notice, fired>>

vars == <<appVars, apiVars, titleVars, toastVars>>

----------------------------------------------------------------------------
(* Bounds *)

MaxClock == 1
MaxOps == 3
MaxRetries == 2
MaxPad == 2      \* longest string put before and after a run of letters
MaxOver == 1     \* how far a run of letters goes past the 40 of slice(0, 40)
MaxNotices == 3  \* calls of showToast in a run of ToastSpec

----------------------------------------------------------------------------
(* Values *)

null == "null"

NoNote == [id |-> "", title |-> "", content |-> "", updatedAt |-> 0]

Note(id, title, content, updatedAt) ==
    [id |-> id, title |-> title, content |-> content, updatedAt |-> updatedAt]

\* The id of the note made by command k: the random part of
\* `note_${now}_${random}` is modelled by the number of the command.
LocalId(k) == "note_" \o ToString(k)

\* The ids of the two seed notes made for remote call op.
SeedId(op, idx) == "note_seed" \o ToString(op) \o "_" \o ToString(idx)

\* The id the remote store assigns to the note made by remote call op.
ServerId(op) == "server_" \o ToString(op)

\* What the editor can type.
PatchValue == "edited"
Patches == {[field |-> "title", value |-> PatchValue],
            [field |-> "content", value |-> PatchValue]}

\* updatedAt values the remote store may put on an entity it returns.
ServerTimes == {0, MaxClock}

N1 == Note("n1", "From API", "Hello", 1)
N2 == Note("n2", "Second", "World", 2)

\* Payloads a successful list exchange may carry.
ListResults == {<< >>, <<N1>>, <<N1, N2>>}

BackendUnavailableError ==
    [class |-> "BackendUnavailableError",
     message |-> "Backend is unavailable (network/CORS error)."]

ApiErrors ==
    {[class |-> "ApiError", message |-> "Request failed with status 404"],
     [class |-> "ApiError", message |-> "Request aborted or timed out."]}

Errors == {BackendUnavailableError} \cup ApiErrors

----------------------------------------------------------------------------
(* Pure helpers *)

Range(s) == {s[i] : i \in 1 .. Len(s)}

Ids(list) == {list[i].id : i \in 1 .. Len(list)}

RECURSIVE Insert(_, _)
\* Place n after every element that does not sort after it (stable).
Insert(n, sorted) ==
    IF sorted = << >> THEN <<n>>
    ELSE IF Head(sorted).updatedAt >= n.updatedAt
         THEN <<Head(sorted)>> \o Insert(n, Tail(sorted))
         ELSE <<n>> \o sorted

RECURSIVE SortFrom(_, _)
SortFrom(list, acc) ==
    IF list = << >> THEN acc
    ELSE SortFrom(Tail(list), Insert(Head(list), acc))

\* [...list].sort((a, b) => b.updatedAt - a.updatedAt), a stable sort.
sortNotes(list) == SortFrom(list, << >>)

Filter(list, id) == SelectSeq(list, LAMBDA n : n.id # id)

Replace(list, id, by) ==
    [i \in 1 .. Len(list) |-> IF list[i].id = id THEN by ELSE list[i]]

\* notes.find((n) => n.id === id) || null
Find(list, id) ==
    IF id \in Ids(list)
    THEN list[CHOOSE i \in 1 .. Len(list) :
                 list[i].id = id /\ \A j \in 1 .. (i - 1) : list[j].id # id]
    ELSE NoNote

selectedNote == IF selectedNoteId = null THEN NoNote ELSE Find(notes, selectedNoteId)

createSeedNotes(op, t1, t2) ==
    sortNotes(<<Note(SeedId(op, 0), "Welcome",
                     "Create, edit, and delete notes.\n\nThis app can run with or without a backend.",
                     t1 + 0),
                Note(SeedId(op, 1), "Tip",
                     "If the backend is unavailable, the app switches to local-only mode automatically.",
                     t2 + 1)>>)

\* Variant: the effect picks the last note of the sorted copy.
SelectionEffect_Last(st, list, sel) ==
    IF st # "ready" THEN sel
    ELSE IF sel # null /\ sel \in Ids(list) THEN sel
    ELSE IF Len(list) > 0 THEN sortNotes(list)[Len(list)].id
    ELSE null

\* The selection effect: keep a selection that exists, else pick the most
\* recent note, else none.  It only acts in the ready status.
SelectionEffect(st, list, sel) ==
    IF st # "ready" THEN sel
    ELSE IF sel # null /\ sel \in Ids(list) THEN sel
    ELSE IF Len(list) > 0 THEN sortNotes(list)[1].id
    ELSE null

\* Values Date.now() can return after it last returned clock.
Now == {t \in clock .. clock + 1 : t <= MaxClock}

----------------------------------------------------------------------------
(* Remote calls *)

\* A pending call with what its continuation closes over: the id (tempId
\* or id), `previous` of an update, `prevNotes` of a delete, and the body
\* that was sent.
Request(op, kind, id, previous, prevNotes, payload) ==
    [op |-> op, kind |-> kind, id |-> id, previous |-> previous,
     prevNotes |-> prevNotes, payload |-> payload]

Payload(title, content) == [title |-> title, content |-> content]

NoPayload == Payload("", "")

\* The history variable names the handler that ran and, for a rejected
\* call, the class of the failure; it does not keep the arguments.
Event(type) == type

Rejected(kind, e) ==
    IF e.class = "BackendUnavailableError" THEN kind \o "Unavailable"
    ELSE kind \o "Failed"

\* Commands of the view (create, delete, update, select, retry) are
\* numbered; a run issues at most MaxOps, the initial load included.
CanCall == nextOp <= MaxOps

showToast(message) ==
    /\ toastMessage' = message
    /\ toastArmed' = TRUE

----------------------------------------------------------------------------
(* The REST client: values *)

undefined == "undefined"

\* A call of a client method: the method, its id and payload arguments (by
\* kind of value), the caller's signal (none, live, aborted), and the
\* options retries and retryBaseDelayMs of the client.
Call(method, id, payload, signal, retries, retryBaseDelayMs) ==
    [method |-> method, id |-> id, payload |-> payload, signal |-> signal,
     retries |-> retries, retryBaseDelayMs |-> retryBaseDelayMs]

NoCall == Call("none", undefined, undefined, "none", 0, 0)

NoOutcome == [type |-> "none"]

\* No call of the client is being followed.
ApiIdle ==
    /\ call = NoCall
    /\ pc = "idle"
    /\ attempt = 0
    /\ aborted = FALSE
    /\ timerPending = FALSE
    /\ listening = FALSE
    /\ resStatus = 0
    /\ outcome = NoOutcome
    /\ fetches = 0
    /\ log = << >>
    /\ slept = << >>

----------------------------------------------------------------------------
(* Initial state: mounted, first render done, load() has called listNotes *)

AppInit ==
    /\ status = "loading"
    /\ errorMessage = ""
    /\ notes = << >>
    /\ selectedNoteId = null
    /\ isOfflineMode = FALSE
    /\ toastMessage = ""
    /\ toastArmed = FALSE
    /\ mounted = TRUE
    /\ inflight = {Request(1, "load", "", NoNote, << >>, NoPayload)}
    /\ nextOp = 2
    /\ clock = 0
    /\ lastEvent = Event("mount")
    /\ controllerAborted = FALSE
    /\ confirmed = << >>
    /\ reconciled = << >>

\* No note is being titled.
TitleIdle ==
    /\ note = [title |-> << >>, content |-> << >>]
    /\ shown = << >>

\* No notice was raised: no timer is pending, the ref holds 0.
ToastIdle ==
    /\ timers = {}
    /\ toastTimeoutRef = 0
    /\ notice = 0
    /\ fired = << >>

Init == AppInit /\ ApiIdle /\ TitleIdle /\ ToastIdle

----------------------------------------------------------------------------
(* State transformations of the handlers *)

\* Variant: the new note replaces the list instead of joining it.
OptimisticCreate_NoPrev(prev, temp) == sortNotes(<<temp>>)

\* createNewNote: setNotes((prev) => sortNotes([{ ...temp, updatedAt: now }, ...prev]))
OptimisticCreate(prev, temp) == sortNotes(<<temp>> \o prev)

\* Variant: the server entity takes the place of the first note of the list.
CreateReconcile_First(prev, tempId, created) ==
    IF prev = << >> THEN prev ELSE sortNotes(<<created>> \o Tail(prev))

\* Variant: the server entity is added and the temporary note is kept.
CreateReconcile_Append(prev, tempId, created) == sortNotes(<<created>> \o prev)

\* createNewNote: setNotes((prev) => sortNotes(prev.map((n) => (n.id === tempId ? created : n))))
CreateReconcile(prev, tempId, created) == sortNotes(Replace(prev, tempId, created))

\* Variant: the revert is forgotten.
CreateRevert_None(prev, tempId) == prev

\* createNewNote: setNotes((prev) => prev.filter((n) => n.id !== tempId))
CreateRevert(prev, tempId) == Filter(prev, tempId)

\* deleteNoteById: setNotes((prev) => prev.filter((n) => n.id !== id))
OptimisticDelete(prev, id) == Filter(prev, id)

\* Variant: the captured list is put in front of the current one.
DeleteRevert_Concat(prev, prevNotes) == prevNotes \o prev

\* deleteNoteById: setNotes(prevNotes), the list captured when the command ran
DeleteRevert(prev, prevNotes) == prevNotes

\* updateSelectedNote: the optimistic entity
Optimistic(previous, patch, now) ==
    Note(previous.id,
         IF patch.field = "title" THEN patch.value ELSE previous.title,
         IF patch.field = "content" THEN patch.value ELSE previous.content,
         now)

\* Variant: the list is mapped and not sorted again.
UpdateApply_Unsorted(prev, id, by) == Replace(prev, id, by)

\* updateSelectedNote: the three setNotes calls share one shape
UpdateApply(prev, id, by) == sortNotes(Replace(prev, id, by))

\* Variant: the revert is forgotten.
UpdateRevert_None(prev, previous) == prev

\* updateSelectedNote: revert note only
UpdateRevert(prev, previous) == UpdateApply(prev, previous.id, previous)

\* Variant: the early return in offline mode is missing.
StopsBeforeRemote_Never(offline) == FALSE

\* `if (isOfflineMode) return;` of the three mutation handlers
StopsBeforeRemote(offline) == offline

\* Variant: the function forgets to return true.
enterOfflineModeIfNeeded_NoReturn(e) == FALSE

enterOfflineModeIfNeeded(e) == e.class = "BackendUnavailableError"

\* Variant: setIsOfflineMode(e instanceof BackendUnavailableError).
OfflineAfterFailure_Assign(e, offline) == e.class = "BackendUnavailableError"

\* enterOfflineModeIfNeeded: setIsOfflineMode(true) for that class only
OfflineAfterFailure(e, offline) ==
    IF e.class = "BackendUnavailableError" THEN TRUE ELSE offline

\* Variant: the initial load keeps existing notes, as retry() does.
SeedOnLoad_KeepPrev(prev, seed) == IF Len(prev) # 0 THEN prev ELSE seed

\* load(): setNotes(createSeedNotes())
SeedOnLoad(prev, seed) == seed

\* Variant: retry() seeds as the initial load does.
SeedOnRetry_Always(prev, seed) == seed

\* retry(): setNotes((prev) => (prev.length ? prev : createSeedNotes()))
SeedOnRetry(prev, seed) == IF Len(prev) # 0 THEN prev ELSE seed

\* Variant: the first entry of the payload is skipped.
ListApply_SkipFirst(list) == IF list = << >> THEN << >> ELSE sortNotes(Tail(list))

\* load / retry: setNotes(sortNotes(list))
ListApply(list) == sortNotes(list)

\* Variant: setIsOfflineMode(true) after a successful list.
OfflineAfterList_True == TRUE

\* load / retry: setIsOfflineMode(false) after a successful list
OfflineAfterList == FALSE

\* Variant: the fallback message is used for every failure.
ErrorMessageOf_Default(e) == "Failed to load notes."

\* load / retry: setErrorMessage(e instanceof Error ? e.message : 'Failed to load notes.');
\* the client only throws ApiError and BackendUnavailableError.
ErrorMessageOf(e) == e.message

\* Variant: retry() keeps the message.
ErrorMessageOnRetry_Keep(message) == message

\* retry(): setErrorMessage('')
ErrorMessageOnRetry(message) == ""

\* Variant: the cleanup only clears the flag.
AbortOnCleanup_Never == FALSE

\* The cleanup of the load effect: controller.abort()
AbortOnCleanup == TRUE

\* Variant: the entity of the remote is added when its note is gone.
UpdateReconcile_Upsert(prev, id, updated) ==
    IF id \in Ids(prev) THEN sortNotes(Replace(prev, id, updated))
    ELSE sortNotes(<<updated>> \o prev)

\* Variant: the entity of the remote is dropped.
UpdateReconcile_None(prev, id, updated) == prev

\* updateSelectedNote: server source of truth
UpdateReconcile(prev, id, updated) == UpdateApply(prev, id, updated)

\* What is remembered of a confirmed update: the note, the number of the
\* command, the title and content the remote returned.
Confirmed(r, updated) ==
    [id |-> r.id, op |-> r.op, title |-> updated.title, content |-> updated.content]

\* What is remembered of a confirmed create: the number of the command and
\* the numbers of the other creates whose calls were pending at that moment.
Reconciled(r, pending) ==
    [op |-> r.op,
     pending |-> {q.op : q \in {x \in pending : x.kind = "create" /\ x # r}}]

\* Variant: retry() leaves the loading status out.
RetryStatus_Ready == "ready"

\* retry(): setStatus('loading')
RetryStatus == "loading"

----------------------------------------------------------------------------
(* Commands of the view *)

\* The "New" buttons are rendered in every status.
createNewNote ==
    /\ mounted
    /\ CanCall
    /\ \E now \in Now :
         LET tempId == LocalId(nextOp)
             temp == Note(tempId, "", "", now)
             req == Request(nextOp, "create", tempId, NoNote, << >>,
                            Payload(temp.title, temp.content))
         IN /\ clock' = now
            /\ notes' = OptimisticCreate(notes, temp)
            /\ selectedNoteId' = SelectionEffect(status, notes', tempId)
            /\ IF StopsBeforeRemote(isOfflineMode)
               THEN UNCHANGED inflight
               ELSE inflight' = inflight \cup {req}
            /\ nextOp' = nextOp + 1
            /\ lastEvent' = Event("createNewNote")
    /\ UNCHANGED <<status, errorMessage, isOfflineMode, toastMessage,
                   toastArmed, mounted, controllerAborted,
                   confirmed, reconciled>>

\* The delete buttons of the list and of the editor exist in the ready
\* status only, for notes of the working set.
deleteNoteById(id) ==
    /\ mounted
    /\ status = "ready"
    /\ id \in Ids(notes)
    /\ CanCall
    /\ LET req == Request(nextOp, "delete", id, NoNote, notes, NoPayload)
       IN /\ notes' = OptimisticDelete(notes, id)
          /\ selectedNoteId' =
                SelectionEffect(status, notes',
                                IF selectedNoteId = id THEN null ELSE selectedNoteId)
          /\ IF StopsBeforeRemote(isOfflineMode)
             THEN UNCHANGED inflight
             ELSE inflight' = inflight \cup {req}
          /\ nextOp' = nextOp + 1
          /\ lastEvent' = Event("deleteNoteById")
    /\ UNCHANGED <<status, errorMessage, isOfflineMode, toastMessage,
                   toastArmed, mounted, controllerAborted,
                   confirmed, reconciled, clock>>

\* The editor fields exist in the ready status with a selected note.
updateSelectedNote(patch) ==
    /\ mounted
    /\ status = "ready"
    /\ selectedNote # NoNote
    /\ CanCall
    /\ \E now \in Now :
         LET previous == selectedNote
             optimistic == Optimistic(previous, patch, now)
             req == Request(nextOp, "update", previous.id, previous, << >>,
                            Payload(optimistic.title, optimistic.content))
         IN /\ clock' = now
            /\ notes' = UpdateApply(notes, previous.id, optimistic)
            /\ selectedNoteId' = SelectionEffect(status, notes', selectedNoteId)
            /\ IF StopsBeforeRemote(isOfflineMode)
               THEN UNCHANGED inflight
               ELSE inflight' = inflight \cup {req}
            /\ nextOp' = nextOp + 1
            /\ lastEvent' = Event("updateSelectedNote")
    /\ UNCHANGED <<status, errorMessage, isOfflineMode, toastMessage,
                   toastArmed, mounted, controllerAborted,
                   confirmed, reconciled>>

\* onSelectNote={setSelectedNoteId}: the rows exist in the ready status.
selectNote(id) ==
    /\ mounted
    /\ status = "ready"
    /\ id \in Ids(notes)
    /\ id # selectedNoteId
    /\ CanCall
    /\ nextOp' = nextOp + 1
    /\ selectedNoteId' = SelectionEffect(status, notes, id)
    /\ lastEvent' = Event("selectNote")
    /\ UNCHANGED <<status, errorMessage, notes, isOfflineMode, toastMessage,
                   toastArmed, mounted, controllerAborted,
                   confirmed, reconciled, inflight, clock>>

\* The Retry button exists in the error status only.
retry ==
    /\ mounted
    /\ status = "error"
    /\ CanCall
    /\ status' = RetryStatus
    /\ errorMessage' = ErrorMessageOnRetry(errorMessage)
    /\ inflight' = inflight \cup {Request(nextOp, "retry", "", NoNote, << >>, NoPayload)}
    /\ nextOp' = nextOp + 1
    /\ lastEvent' = Event("retry")
    /\ UNCHANGED <<notes, selectedNoteId, isOfflineMode, toastMessage,
                   toastArmed, mounted, controllerAborted,
                   confirmed, reconciled, clock>>

dismissToast ==
    /\ mounted
    /\ toastMessage # ""
    /\ toastMessage' = ""
    /\ lastEvent' = Event("dismissToast")
    /\ UNCHANGED <<status, errorMessage, notes, selectedNoteId, isOfflineMode,
                   toastArmed, mounted, controllerAborted,
                   confirmed, reconciled, inflight, nextOp, clock>>

\* The timer of showToast fires.
toastTimeout ==
    /\ mounted
    /\ toastArmed
    /\ toastMessage' = ""
    /\ toastArmed' = FALSE
    /\ lastEvent' = Event("toastTimeout")
    /\ UNCHANGED <<status, errorMessage, notes, selectedNoteId, isOfflineMode,
                   mounted, controllerAborted,
                   confirmed, reconciled, inflight, nextOp, clock>>

\* Cleanup of the initial-load effect.
unmount ==
    /\ mounted
    /\ mounted' = FALSE
    /\ controllerAborted' = AbortOnCleanup
    /\ lastEvent' = Event("unmount")
    /\ UNCHANGED <<status, errorMessage, notes, selectedNoteId, isOfflineMode,
                   toastMessage, toastArmed, inflight, nextOp, clock, confirmed,
                   reconciled>>

----------------------------------------------------------------------------
(* Continuations of the remote calls *)

\* load(): const list = await api.listNotes(...) resolved
loadFulfilled(r, list) ==
    /\ mounted
    /\ r.kind = "load"
    /\ notes' = ListApply(list)
    /\ isOfflineMode' = OfflineAfterList
    /\ status' = "ready"
    /\ selectedNoteId' = SelectionEffect(status', notes', selectedNoteId)
    /\ inflight' = inflight \ {r}
    /\ lastEvent' = Event("loadFulfilled")
    /\ UNCHANGED <<errorMessage, toastMessage, toastArmed, mounted, controllerAborted,
                   confirmed, reconciled, nextOp,
                   clock>>

\* load(): the catch block
loadRejected(r, e) ==
    /\ mounted
    /\ r.kind = "load"
    /\ IF e.class = "BackendUnavailableError"
       THEN \E t1 \in Now : \E t2 \in {t \in t1 .. t1 + 1 : t <= MaxClock} :
              /\ clock' = t2
              /\ isOfflineMode' = TRUE
              /\ notes' = SeedOnLoad(notes, createSeedNotes(r.op, t1, t2))
              /\ status' = "ready"
              /\ UNCHANGED errorMessage
       ELSE /\ status' = "error"
            /\ errorMessage' = ErrorMessageOf(e)
            /\ UNCHANGED <<notes, isOfflineMode, clock>>
    /\ selectedNoteId' = SelectionEffect(status', notes', selectedNoteId)
    /\ inflight' = inflight \ {r}
    /\ lastEvent' = Event(Rejected("load", e))
    /\ UNCHANGED <<toastMessage, toastArmed, mounted, controllerAborted,
                   confirmed, reconciled, nextOp>>

\* retry(): const list = await api.listNotes() resolved
retryFulfilled(r, list) ==
    /\ mounted
    /\ r.kind = "retry"
    /\ notes' = ListApply(list)
    /\ isOfflineMode' = OfflineAfterList
    /\ status' = "ready"
    /\ selectedNoteId' = SelectionEffect(status', notes', selectedNoteId)
    /\ inflight' = inflight \ {r}
    /\ lastEvent' = Event("retryFulfilled")
    /\ UNCHANGED <<errorMessage, toastMessage, toastArmed, mounted, controllerAborted,
                   confirmed, reconciled, nextOp,
                   clock>>

\* retry(): the catch block
retryRejected(r, e) ==
    /\ mounted
    /\ r.kind = "retry"
    /\ IF e.class = "BackendUnavailableError"
       THEN /\ isOfflineMode' = TRUE
            /\ \E t1 \in Now : \E t2 \in {t \in t1 .. t1 + 1 : t <= MaxClock} :
                 /\ notes' = SeedOnRetry(notes, createSeedNotes(r.op, t1, t2))
                 \* createSeedNotes() reads the clock only when it is called
                 /\ clock' = IF Len(notes) # 0 THEN clock ELSE t2
            /\ status' = "ready"
            /\ showToast("Backend still unavailable. Staying in local mode.")
            /\ UNCHANGED errorMessage
       ELSE /\ status' = "error"
            /\ errorMessage' = ErrorMessageOf(e)
            /\ UNCHANGED <<notes, isOfflineMode, clock, toastMessage, toastArmed>>
    /\ selectedNoteId' = SelectionEffect(status', notes', selectedNoteId)
    /\ inflight' = inflight \ {r}
    /\ lastEvent' = Event(Rejected("retry", e))
    /\ UNCHANGED <<mounted, controllerAborted,
                   confirmed, reconciled, nextOp>>

\* createNewNote: const created = await api.createNote(...) resolved
createFulfilled(r, created) ==
    /\ mounted
    /\ r.kind = "create"
    /\ notes' = CreateReconcile(notes, r.id, created)
    /\ selectedNoteId' = SelectionEffect(status, notes', created.id)
    /\ inflight' = inflight \ {r}
    /\ reconciled' = Append(reconciled, Reconciled(r, inflight))
    /\ lastEvent' = Event("createFulfilled")
    /\ UNCHANGED <<status, errorMessage, isOfflineMode, toastMessage,
                   toastArmed, mounted, controllerAborted,
                   confirmed, nextOp, clock>>

\* createNewNote: the catch block
createRejected(r, e) ==
    /\ mounted
    /\ r.kind = "create"
    /\ IF enterOfflineModeIfNeeded(e)
       THEN /\ showToast("Backend unavailable. Continuing in local mode.")
            /\ UNCHANGED <<notes, selectedNoteId>>
       ELSE /\ notes' = CreateRevert(notes, r.id)
            /\ selectedNoteId' = SelectionEffect(status, notes', null)
            /\ showToast(e.message)
    /\ isOfflineMode' = OfflineAfterFailure(e, isOfflineMode)
    /\ inflight' = inflight \ {r}
    /\ lastEvent' = Event(Rejected("create", e))
    /\ UNCHANGED <<status, errorMessage, mounted, controllerAborted,
                   confirmed, reconciled, nextOp, clock>>

\* deleteNoteById: await api.deleteNote(id) resolved
deleteFulfilled(r) ==
    /\ mounted
    /\ r.kind = "delete"
    /\ inflight' = inflight \ {r}
    /\ lastEvent' = Event("deleteFulfilled")
    /\ UNCHANGED <<status, errorMessage, notes, selectedNoteId, isOfflineMode,
                   toastMessage, toastArmed, mounted, controllerAborted,
                   confirmed, reconciled, nextOp, clock>>

\* deleteNoteById: the catch block
deleteRejected(r, e) ==
    /\ mounted
    /\ r.kind = "delete"
    /\ IF enterOfflineModeIfNeeded(e)
       THEN /\ showToast("Backend unavailable. Delete kept locally.")
            /\ UNCHANGED <<notes, selectedNoteId>>
       ELSE /\ notes' = DeleteRevert(notes, r.prevNotes)
            /\ selectedNoteId' = SelectionEffect(status, notes', selectedNoteId)
            /\ showToast(e.message)
    /\ isOfflineMode' = OfflineAfterFailure(e, isOfflineMode)
    /\ inflight' = inflight \ {r}
    /\ lastEvent' = Event(Rejected("delete", e))
    /\ UNCHANGED <<status, errorMessage, mounted, controllerAborted,
                   confirmed, reconciled, nextOp, clock>>

\* updateSelectedNote: const updated = await api.updateNote(...) resolved
updateFulfilled(r, updated) ==
    /\ mounted
    /\ r.kind = "update"
    /\ notes' = UpdateReconcile(notes, r.id, updated)
    /\ selectedNoteId' = SelectionEffect(status, notes', selectedNoteId)
    /\ inflight' = inflight \ {r}
    /\ confirmed' = Append(confirmed, Confirmed(r, updated))
    /\ lastEvent' = Event("updateFulfilled")
    /\ UNCHANGED <<status, errorMessage, isOfflineMode, toastMessage,
                   toastArmed, mounted, controllerAborted, reconciled,
                   nextOp, clock>>

\* updateSelectedNote: the catch block
updateRejected(r, e) ==
    /\ mounted
    /\ r.kind = "update"
    /\ IF enterOfflineModeIfNeeded(e)
       THEN /\ showToast("Backend unavailable. Changes kept locally.")
            /\ UNCHANGED <<notes, selectedNoteId>>
       ELSE /\ notes' = UpdateRevert(notes, r.previous)
            /\ selectedNoteId' = SelectionEffect(status, notes', selectedNoteId)
            /\ showToast(e.message)
    /\ isOfflineMode' = OfflineAfterFailure(e, isOfflineMode)
    /\ inflight' = inflight \ {r}
    /\ lastEvent' = Event(Rejected("update", e))
    /\ UNCHANGED <<status, errorMessage, mounted, controllerAborted,
                   confirmed, reconciled, nextOp, clock>>

\* A call settles after the component is gone: `if (!mounted) return;` in
\* load(), and React discards the state updates of an unmounted component.
settledUnmounted(r) ==
    /\ ~mounted
    /\ inflight' = inflight \ {r}
    /\ lastEvent' = Event("settledUnmounted")
    /\ UNCHANGED <<status, errorMessage, notes, selectedNoteId, isOfflineMode,
                   toastMessage, toastArmed, mounted, controllerAborted,
                   confirmed, reconciled, nextOp, clock>>

\* Entities the remote store may return for the calls.
Created(r) ==
    IF r.kind # "create" THEN {}
    ELSE {Note(ServerId(r.op), r.payload.title, r.payload.content, t) : t \in ServerTimes}

Updated(r) ==
    IF r.kind # "update" THEN {}
    ELSE {Note(r.id, r.payload.title, r.payload.content, t) : t \in ServerTimes}

----------------------------------------------------------------------------

Next ==
    \/ createNewNote /\ UNCHANGED <<apiVars, titleVars, toastVars>>
    \/ \E id \in Ids(notes) : deleteNoteById(id) /\ UNCHANGED <<apiVars, titleVars, toastVars>>
    \/ \E patch \in Patches : updateSelectedNote(patch) /\ UNCHANGED <<apiVars, titleVars, toastVars>>
    \/ \E id \in Ids(notes) : selectNote(id) /\ UNCHANGED <<apiVars, titleVars, toastVars>>
    \/ retry /\ UNCHANGED <<apiVars, titleVars, toastVars>>
    \/ dismissToast /\ UNCHANGED <<apiVars, titleVars, toastVars>>
    \/ toastTimeout /\ UNCHANGED <<apiVars, titleVars, toastVars>>
    \/ unmount /\ UNCHANGED <<apiVars, titleVars, toastVars>>
    \/ \E r \in inflight :
         \/ \E list \in ListResults : loadFulfilled(r, list) /\ UNCHANGED <<apiVars, titleVars, toastVars>>
         \/ \E e \in Errors : loadRejected(r, e) /\ UNCHANGED <<apiVars, titleVars, toastVars>>
         \/ \E list \in ListResults : retryFulfilled(r, list) /\ UNCHANGED <<apiVars, titleVars, toastVars>>
         \/ \E e \in Errors : retryRejected(r, e) /\ UNCHANGED <<apiVars, titleVars, toastVars>>
         \/ \E created \in Created(r) : createFulfilled(r, created) /\ UNCHANGED <<apiVars, titleVars, toastVars>>
         \/ \E e \in Errors : createRejected(r, e) /\ UNCHANGED <<apiVars, titleVars, toastVars>>
         \/ deleteFulfilled(r) /\ UNCHANGED <<apiVars, titleVars, toastVars>>
         \/ \E e \in Errors : deleteRejected(r, e) /\ UNCHANGED <<apiVars, titleVars, toastVars>>
         \/ \E updated \in Updated(r) : updateFulfilled(r, updated) /\ UNCHANGED <<apiVars, titleVars, toastVars>>
         \/ \E e \in Errors : updateRejected(r, e) /\ UNCHANGED <<apiVars, titleVars, toastVars>>
         \/ settledUnmounted(r) /\ UNCHANGED <<apiVars, titleVars, toastVars>>

Spec == Init /\ [][Next]_vars

TypeOK ==
    /\ status \in {"loading", "ready", "error"}
    /\ isOfflineMode \in BOOLEAN
    /\ nextOp \in 1 .. MaxOps + 1
    /\ clock \in 0 .. MaxClock

----------------------------------------------------------------------------
(* The REST client: one call of a method *)

Methods == {"listNotes", "getNote", "createNote", "updateNote", "deleteNote"}

\* Values of the id argument: a usable id, the empty string, none.
IdArgs == {"n1", "", undefined}

\* Values of the payload argument, by kind.
PayloadArgs == {"object", "array", "string", "null", undefined}

Signals == {"none", "live", "aborted"}

RetriesOptions == -1 .. MaxRetries

\* res.status values the remote may answer with.
Statuses == {200, 204, 404, 500, 599}

\* What the body of a response parses to, by kind: a JSON array, a JSON
\* object, raw text, or null (empty or unparsable).
Bodies == {"array", "object", "text", "null"}

\* What fetch() may reject with.
Rejections == {"TypeError", "AbortError", "Error"}

\* Values of the option retryBaseDelayMs: the default and another.
BaseDelays == {250, 100}

\* Calls that are followed: each method with the arguments it takes.
Calls ==
    {Call(m, id, payload, signal, retries, base) :
       m \in Methods, id \in IdArgs, payload \in PayloadArgs,
       signal \in Signals, retries \in RetriesOptions, base \in BaseDelays}

HasId(m) == m \in {"getNote", "updateNote", "deleteNote"}

HasPayload(m) == m \in {"createNote", "updateNote"}

\* Only the arguments a method takes vary.
Takes(c) ==
    /\ HasId(c.method) \/ c.id = undefined
    /\ HasPayload(c.method) \/ c.payload = undefined

ApiError(message, st, retriable) ==
    [type |-> "error", class |-> "ApiError", message |-> message,
     status |-> st, retriable |-> retriable]

UnavailableError ==
    [type |-> "error", class |-> BackendUnavailableError.class,
     message |-> BackendUnavailableError.message,
     status |-> 0, retriable |-> FALSE]

Response(st, data) == [type |-> "ok", status |-> st, data |-> data]

\* !id
NoId(id) == id \in {"", undefined}

\* !payload || typeof payload !== 'object'
NoPayloadObject(payload) == payload \in {"null", undefined} \/ payload \notin {"object", "array"}

\* The checks at the head of the client methods: the message of the
\* ApiError they throw, or "" when the arguments pass.
Validate(c) ==
    IF HasId(c.method) /\ NoId(c.id) THEN c.method \o " requires an id."
    ELSE IF HasPayload(c.method) /\ NoPayloadObject(c.payload)
         THEN c.method \o " requires a payload object."
    ELSE ""

\* The checks of res.data after requestJsonWithRetries returned.
ShapeCheck(m, res) ==
    IF m = "listNotes" /\ res.data # "array"
    THEN ApiError("Invalid response shape for listNotes (expected array).", 0, FALSE)
    ELSE IF m \in {"getNote", "createNote", "updateNote"}
            /\ res.data \notin {"object", "array"}
    THEN ApiError("Invalid response shape for " \o m \o " (expected object).", 0, FALSE)
    ELSE res

\* res.ok
Ok(st) == st >= 200 /\ st <= 299

\* Variant: every failure status is retriable.
Retriable_All(st) == TRUE

\* const retriable = res.status >= 500 && res.status <= 599
Retriable(st) == st >= 500 /\ st <= 599

StatusError(st) ==
    ApiError("Request failed with status " \o ToString(st), st, Retriable(st))

\* isLikelyNetworkOrCorsError, for what fetch() rejects with
isLikelyNetworkOrCorsError(rejection) == rejection = "TypeError"

\* Variant: the abort is not looked at.
Classify_NoAbort(isAborted, thrown, attemptIndex) ==
    IF thrown.class = "ApiError" THEN thrown
    ELSE IF isLikelyNetworkOrCorsError(thrown.class) THEN UnavailableError
    ELSE ApiError("Unexpected error while calling backend.", 0, FALSE)

\* The catch block of attemptOnce: thrown is the ApiError of a failure
\* status or what fetch() rejected with.
Classify(isAborted, thrown, attemptIndex) ==
    IF isAborted
    THEN ApiError(IF attemptIndex = 0 THEN "Request aborted or timed out."
                  ELSE "Request aborted or timed out after retries.", 0, FALSE)
    ELSE IF thrown.class = "ApiError" THEN thrown
    ELSE IF isLikelyNetworkOrCorsError(thrown.class) THEN UnavailableError
    ELSE ApiError("Unexpected error while calling backend.", 0, FALSE)

Max(a, b) == IF a >= b THEN a ELSE b

\* Variant: one attempt more.
maxAttempts_OneMore(retries) == 2 + Max(0, retries)

\* const maxAttempts = 1 + Math.max(0, args.retries)
maxAttempts(retries) == 1 + Max(0, retries)

\* Variant: the last attempt is retried as well.
shouldRetry_NoLast(e, attemptIndex, retries) ==
    \/ e.class = BackendUnavailableError.class
    \/ e.class = "ApiError" /\ e.retriable

\* The catch block of the retry loop.
shouldRetry(e, attemptIndex, retries) ==
    LET isLast == attemptIndex = maxAttempts(retries) - 1
    IN /\ ~isLast
       /\ \/ e.class = BackendUnavailableError.class
          \/ e.class = "ApiError" /\ e.retriable

\* Variant: the delay does not grow.
backoff_Constant(retryBaseDelayMs, attemptIndex) == retryBaseDelayMs

\* args.retryBaseDelayMs * Math.pow(2, attempt)
backoff(retryBaseDelayMs, attemptIndex) == retryBaseDelayMs * 2 ^ attemptIndex

\* The finally block: the timer is cleared and the listener removed.
Finally ==
    /\ timerPending' = FALSE
    /\ listening' = FALSE

\* The method settles with o.
Settle(o) ==
    /\ outcome' = o
    /\ pc' = "done"

\* attemptOnce returned or threw res: the rest of the loop body, and of
\* the method when the loop is left.
AfterAttempt(res) ==
    /\ log' = Append(log, res)
    /\ IF res.type = "ok"
       THEN /\ Settle(ShapeCheck(call.method, res))
            /\ Finally
            /\ UNCHANGED <<attempt, slept>>
       ELSE IF shouldRetry(res, attempt, call.retries)
       THEN /\ pc' = "sleeping"
            /\ slept' = Append(slept, backoff(call.retryBaseDelayMs, attempt))
            /\ UNCHANGED <<attempt, outcome, timerPending, listening>>
       ELSE /\ Settle(res)
            /\ Finally
            /\ UNCHANGED <<attempt, slept>>

\* A method of the client is called: its validation, then the head of
\* requestJsonWithRetries and the first call of fetch().
invoke ==
    /\ pc = "called"
    /\ IF Validate(call) # ""
       THEN /\ Settle(ApiError(Validate(call), 0, FALSE))
            /\ UNCHANGED <<attempt, aborted, timerPending, listening, fetches>>
       ELSE /\ aborted' = (call.signal = "aborted")
            /\ listening' = (call.signal = "live")
            /\ timerPending' = TRUE
            /\ attempt' = 0
            /\ fetches' = fetches + 1
            /\ pc' = "fetching"
            /\ UNCHANGED outcome
    /\ UNCHANGED <<call, resStatus, log, slept>>
    /\ UNCHANGED <<appVars, titleVars, toastVars>>

\* fetch() resolves with a response; a 204 has no body to read.
fetchResolved(st) ==
    /\ pc = "fetching"
    /\ ~aborted
    /\ resStatus' = st
    /\ IF st = 204
       THEN AfterAttempt(Response(st, "null"))
       ELSE /\ pc' = "body"
            /\ UNCHANGED <<attempt, timerPending, listening, outcome, log, slept>>
    /\ UNCHANGED <<call, aborted, fetches>>
    /\ UNCHANGED <<appVars, titleVars, toastVars>>

\* fetch() rejects: an AbortError needs the signal to be aborted.
fetchRejected(rejection) ==
    /\ pc = "fetching"
    /\ rejection = "AbortError" => aborted
    /\ AfterAttempt(Classify(aborted, [class |-> rejection], attempt))
    /\ UNCHANGED <<call, aborted, resStatus, fetches>>
    /\ UNCHANGED <<appVars, titleVars, toastVars>>

\* res.json() or res.text() settles; a failed read leaves null.  Then the
\* test of res.ok.
bodyRead(data) ==
    /\ pc = "body"
    /\ AfterAttempt(IF Ok(resStatus) THEN Response(resStatus, data)
                    ELSE Classify(aborted, StatusError(resStatus), attempt))
    /\ UNCHANGED <<call, aborted, resStatus, fetches>>
    /\ UNCHANGED <<appVars, titleVars, toastVars>>

\* sleep(backoff) is over: the next turn of the loop.
sleepDone ==
    /\ pc = "sleeping"
    /\ attempt' = attempt + 1
    /\ IF attempt' < maxAttempts(call.retries)
       THEN /\ fetches' = fetches + 1
            /\ pc' = "fetching"
            /\ UNCHANGED <<outcome, timerPending, listening>>
       ELSE /\ Settle(ApiError("Request failed after retries.", 0, FALSE))
            /\ Finally
            /\ UNCHANGED fetches
    /\ UNCHANGED <<call, aborted, resStatus, log, slept>>
    /\ UNCHANGED <<appVars, titleVars, toastVars>>

\* The timer of timeoutMs fires.
timeoutFires ==
    /\ timerPending
    /\ aborted' = TRUE
    /\ timerPending' = FALSE
    /\ UNCHANGED <<call, pc, attempt, listening, resStatus, outcome, fetches,
                   log, slept>>
    /\ UNCHANGED <<appVars, titleVars, toastVars>>

\* The caller aborts its signal: onExternalAbort, registered with once.
externalAbort ==
    /\ listening
    /\ aborted' = TRUE
    /\ listening' = FALSE
    /\ UNCHANGED <<call, pc, attempt, timerPending, resStatus, outcome,
                   fetches, log, slept>>
    /\ UNCHANGED <<appVars, titleVars, toastVars>>

ApiInit ==
    /\ AppInit
    /\ TitleIdle
    /\ ToastIdle
    /\ call \in {c \in Calls : Takes(c)}
    /\ pc = "called"
    /\ attempt = 0
    /\ aborted = FALSE
    /\ timerPending = FALSE
    /\ listening = FALSE
    /\ resStatus = 0
    /\ outcome = NoOutcome
    /\ fetches = 0
    /\ log = << >>
    /\ slept = << >>

ApiNext ==
    \/ invoke
    \/ \E st \in Statuses : fetchResolved(st)
    \/ \E rejection \in Rejections : fetchRejected(rejection)
    \/ \E data \in Bodies : bodyRead(data)
    \/ sleepDone
    \/ timeoutFires
    \/ externalAbort

ApiSpec == ApiInit /\ [][ApiNext]_vars

\* A pending exchange settles (the browser rejects the fetch and the read of
\* an aborted signal), and pending timers fire.
ApiFairness ==
    /\ WF_vars(invoke)
    /\ WF_vars((\E st \in Statuses : fetchResolved(st))
                 \/ (\E rejection \in Rejections : fetchRejected(rejection)))
    /\ WF_vars(\E data \in Bodies : bodyRead(data))
    /\ WF_vars(sleepDone)
    /\ WF_vars(timeoutFires)

ApiFairSpec == ApiSpec /\ ApiFairness

ApiTypeOK ==
    /\ pc \in {"called", "fetching", "body", "sleeping", "done"}
    /\ attempt \in 0 .. MaxRetries + 1
    /\ aborted \in BOOLEAN
    /\ fetches \in 0 .. MaxRetries + 2

----------------------------------------------------------------------------
(* getNoteDisplayTitle: strings are sequences of characters *)

\* The characters of the inputs: a letter, a space, a line feed.
Chars == {"a", " ", "\n"}

\* What String.prototype.trim removes: white space and line terminators.
WhiteSpace == {" ", "\n"}

\* All strings over the set cs of length at most n.
RECURSIVE StringsUpTo(_, _)
StringsUpTo(cs, n) ==
    IF n = 0 THEN {<< >>}
    ELSE LET shorter == StringsUpTo(cs, n - 1)
         IN shorter \cup {<<c>> \o s : c \in cs, s \in {x \in shorter : Len(x) = n - 1}}

\* 'a'.repeat(n)
RECURSIVE Run(_)
Run(n) == IF n = 0 THEN << >> ELSE <<"a">> \o Run(n - 1)

\* The length slice(0, 40) cuts to.
SliceEnd == 40

Runs == {0} \cup ((SliceEnd - 1) .. (SliceEnd + MaxOver))

\* The titles and the contents given to the helper: strings of white space,
\* letters and line feeds around a run of letters of about the length of
\* the cut.
Titles == StringsUpTo(Chars, MaxPad)

Contents ==
    {before \o Run(n) \o after :
        before \in StringsUpTo(WhiteSpace, MaxPad),
        n \in Runs,
        after \in StringsUpTo(Chars, MaxPad)}

\* The notes given to the helper; a field may be missing (undefined).
TitleNotes ==
    [title : Titles, content : Contents]
        \cup {[title |-> t] : t \in Titles}
        \cup {[content |-> c] : c \in Contents}

\* note.title || '', note.content || '': a missing field reads as ''.
OrEmpty(n, field) == IF field \in DOMAIN n THEN n[field] ELSE << >>

RECURSIVE trimStart(_)
trimStart(s) ==
    IF s = << >> THEN s
    ELSE IF Head(s) \in WhiteSpace THEN trimStart(Tail(s)) ELSE s

RECURSIVE trimEnd(_)
trimEnd(s) ==
    IF s = << >> THEN s
    ELSE IF s[Len(s)] \in WhiteSpace THEN trimEnd(SubSeq(s, 1, Len(s) - 1)) ELSE s

\* String.prototype.trim
trim(s) == trimEnd(trimStart(s))

\* s.split('\n')[0]: what comes before the first line feed.
RECURSIVE firstLine(_)
firstLine(s) ==
    IF s = << >> THEN s
    ELSE IF Head(s) = "\n" THEN << >> ELSE <<Head(s)>> \o firstLine(Tail(s))

\* Variant: the string is not cut.
slice_All(s, start, end) == s

\* s.slice(start, end), for 0 <= start <= end
slice(s, start, end) == SubSeq(s, start + 1, IF end < Len(s) THEN end ELSE Len(s))

\* 'Untitled note'
UntitledNote == <<"U", "n", "t", "i", "t", "l", "e", "d", " ", "n", "o", "t", "e">>

getNoteDisplayTitle(n) ==
    LET t == trim(OrEmpty(n, "title"))
        line == trim(firstLine(OrEmpty(n, "content")))
    IN IF Len(t) > 0 THEN t
       ELSE IF Len(line) > 0 THEN slice(line, 0, SliceEnd)
       ELSE UntitledNote

\* The helper is called with the note.
displayTitle ==
    /\ shown = << >>
    /\ shown' = Append(shown, getNoteDisplayTitle(note))
    /\ UNCHANGED <<note, appVars, apiVars, toastVars>>

TitleInit ==
    /\ AppInit
    /\ ApiIdle
    /\ ToastIdle
    /\ note \in TitleNotes
    /\ shown = << >>

TitleNext == displayTitle

TitleSpec == TitleInit /\ [][TitleNext]_vars

TitleTypeOK ==
    /\ Len(shown) <= 1
    /\ \A i \in 1 .. Len(shown) :
          \A k \in 1 .. Len(shown[i]) : shown[i][k] \in Chars \cup {"U", "n", "t", "i", "l", "e", "d", "o"}

----------------------------------------------------------------------------
(* The transient notice and its timers *)

\* The messages the handlers pass to showToast.
ToastMessages ==
    {"Backend still unavailable. Staying in local mode.",
     "Backend unavailable. Continuing in local mode.",
     "Backend unavailable. Delete kept locally.",
     "Backend unavailable. Changes kept locally."}
        \cup {e.message : e \in ApiErrors}

\* Variant: the previous timer is left pending.
ClearTimeout_Never(pending, ref) == pending

\* if (toastTimeoutRef.current) window.clearTimeout(toastTimeoutRef.current):
\* clearing a timer that has fired, or none, does nothing.
ClearTimeout(pending, ref) == IF ref # 0 THEN pending \ {ref} ELSE pending

\* What a timer leaves in the history when it fires: its id, the number of
\* the notice raised last, and whether a notice was on display.
Fired(t) == [timer |-> t, notice |-> notice, shown |-> mounted /\ toastMessage # ""]

\* A handler calls showToast(message).  window.setTimeout returns a fresh
\* id: the number of the notice the timer is set for.
showToastCalled(message) ==
    /\ mounted
    /\ notice < MaxNotices
    /\ showToast(message)
    /\ timers' = ClearTimeout(timers, toastTimeoutRef) \cup {notice + 1}
    /\ toastTimeoutRef' = notice + 1
    /\ notice' = notice + 1
    /\ lastEvent' = Event("showToast")
    /\ UNCHANGED fired
    /\ UNCHANGED <<status, errorMessage, notes, selectedNoteId, isOfflineMode,
                   mounted, controllerAborted, confirmed, reconciled, inflight,
                   nextOp, clock>>
    /\ UNCHANGED <<apiVars, titleVars>>

\* A timer fires: () => setToastMessage('').  React discards the update of
\* an unmounted component; the ref keeps the id of the timer.
timerFires(t) ==
    /\ t \in timers
    /\ timers' = timers \ {t}
    /\ fired' = Append(fired, Fired(t))
    /\ IF mounted
       THEN /\ toastMessage' = ""
            /\ toastArmed' = FALSE
            /\ lastEvent' = Event("toastTimeout")
       ELSE UNCHANGED <<toastMessage, toastArmed, lastEvent>>
    /\ UNCHANGED <<toastTimeoutRef, notice>>
    /\ UNCHANGED <<status, errorMessage, notes, selectedNoteId, isOfflineMode,
                   mounted, controllerAborted, confirmed, reconciled, inflight,
                   nextOp, clock>>
    /\ UNCHANGED <<apiVars, titleVars>>

ToastInit ==
    /\ AppInit
    /\ ApiIdle
    /\ TitleIdle
    /\ ToastIdle

ToastNext ==
    \/ \E message \in ToastMessages : showToastCalled(message)
    \/ \E t \in timers : timerFires(t)
    \/ dismissToast /\ UNCHANGED <<apiVars, titleVars, toastVars>>
    \/ unmount /\ UNCHANGED <<apiVars, titleVars, toastVars>>

ToastSpec == ToastInit /\ [][ToastNext]_vars

\* A timer of window.setTimeout that is pending fires.
ToastFairness == WF_vars(\E t \in timers : timerFires(t))

ToastFairSpec == ToastSpec /\ ToastFairness

ToastTypeOK ==
    /\ notice \in 0 .. MaxNotices
    /\ timers \subseteq 1 .. MaxNotices
    /\ toastTimeoutRef = notice
    /\ mounted => (toastArmed <=> timers # {})

----------------------------------------------------------------------------
(* Properties *)

Count(list, n) == Cardinality({i \in 1 .. Len(list) : list[i] = n})

\* The two sequences hold the same notes, each as often.
SameNotes(a, b) == \A n \in Range(a) \cup Range(b) : Count(a, n) = Count(b, n)

WithId(list, id) == {i \in 1 .. Len(list) : list[i].id = id}

Commands == {"createNewNote", "deleteNoteById", "updateSelectedNote"}

\* C1: right after createNewNote ran (online or offline), the working set
\* holds a new note with a temporary id that was not there before, with empty
\* title and content, every note that was present is still present, and the
\* selection is that temporary id.
C1_OptimisticCreate ==
    [][lastEvent' = "createNewNote" =>
         LET tempId == LocalId(nextOp)
         IN /\ tempId \notin Ids(notes)
            /\ Cardinality(WithId(notes', tempId)) = 1
            /\ Find(notes', tempId).title = ""
            /\ Find(notes', tempId).content = ""
            /\ \A n \in Range(notes) : Count(notes', n) = Count(notes, n)
            /\ Len(notes') = Len(notes) + 1
            /\ selectedNoteId' = tempId]_vars

C1_Witness ==
    /\ lastEvent = "createNewNote"
    /\ Len(notes) > 1
    /\ \E r \in inflight : r.kind = "create" /\ r.id = selectedNoteId

\* C2 as claimed: whenever the remote create of an online createNewNote
\* resolves with an entity of id S, the working set then holds exactly one
\* note of id S, none of the temporary id, and S is selected.
C2_Original ==
    [][\A r \in inflight : \A created \in Created(r) :
         createFulfilled(r, created) =>
           /\ Cardinality(WithId(notes', created.id)) = 1
           /\ r.id \notin Ids(notes')
           /\ selectedNoteId' = created.id]_vars

\* C2 amended: the same, for a temporary note that is still in the working
\* set when the call resolves; and an online createNewNote issues exactly one
\* remote create, for its own temporary id.
C2_CreateReconciled ==
    [][/\ \A r \in inflight : \A created \in Created(r) :
            (createFulfilled(r, created) /\ r.id \in Ids(notes)) =>
              /\ Cardinality(WithId(notes', created.id)) = 1
              /\ Find(notes', created.id) = created
              /\ r.id \notin Ids(notes')
              /\ Len(notes') = Len(notes)
              /\ selectedNoteId' = created.id
       /\ (lastEvent' = "createNewNote" /\ ~isOfflineMode) =>
            \E r \in inflight' :
                /\ r \notin inflight
                /\ inflight' = inflight \cup {r}
                /\ r.kind = "create"
                /\ r.id = LocalId(nextOp)
                /\ \A q \in inflight : q.kind = "create" => q.id # r.id]_vars

C2_Witness ==
    /\ lastEvent = "createFulfilled"
    /\ selectedNoteId \in Ids(notes)
    /\ \E op \in 1 .. MaxOps : selectedNoteId = ServerId(op)
    /\ Len(notes) > 1

\* C3: when the remote call of an online update fails with an error that is
\* not BackendUnavailable, the note of that id, if the working set still has
\* it, again has the title, content and updatedAt it had just before the patch
\* was applied (the values the command captured), a notice is set and
\* isOfflineMode is unchanged.
C3_UpdateRollback ==
    [][/\ \A r \in inflight : \A e \in ApiErrors :
            updateRejected(r, e) =>
              /\ r.id \in Ids(notes) =>
                   /\ Cardinality(WithId(notes', r.id)) = 1
                   /\ Find(notes', r.id) = r.previous
              /\ toastMessage' # ""
              /\ isOfflineMode' = isOfflineMode
       /\ (lastEvent' = "updateSelectedNote" /\ ~isOfflineMode) =>
            \E r \in inflight' \ inflight :
                /\ r.kind = "update"
                /\ r.previous = Find(notes, selectedNoteId)]_vars

C3_Witness ==
    /\ lastEvent = "updateFailed"
    /\ toastMessage # ""
    /\ selectedNoteId \in Ids(notes)
    /\ Find(notes, selectedNoteId).title # PatchValue
    /\ Find(notes, selectedNoteId).content # PatchValue

\* C4: when the remote call of an online create fails with an error that is
\* not BackendUnavailable, the working set afterwards has no note of the
\* temporary id, holds every other note as before, and the notice carries the
\* failure's message.
C4_CreateRollback ==
    [][\A r \in inflight : \A e \in ApiErrors :
         createRejected(r, e) =>
           /\ r.id \notin Ids(notes')
           /\ \A n \in Range(notes) \cup Range(notes') :
                n.id # r.id => Count(notes', n) = Count(notes, n)
           /\ toastMessage' = e.message]_vars

C4_Witness ==
    /\ lastEvent = "createFailed"
    /\ Len(notes) > 0
    /\ toastMessage \in {e.message : e \in ApiErrors}
    /\ \A i \in 1 .. Len(notes) : \A k \in 1 .. MaxOps : notes[i].id # LocalId(k)

\* C5 as claimed: when the remote call of an online delete fails with an
\* error that is not BackendUnavailable, the working set after the rollback
\* is the working set just before the rollback plus the removed note.
C5_Original ==
    [][\A r \in inflight : \A e \in ApiErrors :
         deleteRejected(r, e) =>
           SameNotes(notes', notes \o <<Find(r.prevNotes, r.id)>>)]_vars

\* C6: when the remote call of a create, update or delete fails with
\* BackendUnavailable, isOfflineMode becomes true, the working set (hence the
\* optimistic mutation) and the selection are left as they are, the status is
\* unchanged and a notice is set.
C6_UnavailableKeepsOptimistic ==
    [][lastEvent' \in {"createUnavailable", "updateUnavailable", "deleteUnavailable"} =>
         /\ isOfflineMode'
         /\ notes' = notes
         /\ selectedNoteId' = selectedNoteId
         /\ status' = status
         /\ toastMessage' # ""]_vars

C6_Witness ==
    /\ lastEvent = "deleteUnavailable"
    /\ isOfflineMode
    /\ Len(notes) = 1
    /\ toastMessage = "Backend unavailable. Delete kept locally."

\* C7 as claimed: isOfflineMode goes from true to false only when a retry()
\* succeeds.
C7_Original ==
    [][(isOfflineMode /\ ~isOfflineMode') => lastEvent' = "retryFulfilled"]_vars

\* C7 amended: isOfflineMode goes from true to false only when a list()
\* succeeds, that of the initial load or that of retry(); no outcome of a
\* create, update or delete call and no other event clears it.
C7_OfflineSticky ==
    [][(isOfflineMode /\ ~isOfflineMode') =>
         lastEvent' \in {"loadFulfilled", "retryFulfilled"}]_vars

C7_Witness ==
    /\ isOfflineMode
    /\ lastEvent \in {"createFulfilled", "updateFulfilled", "deleteFulfilled",
                      "createFailed", "updateFailed", "deleteFailed"}

\* C8: a create, update or delete command that runs while isOfflineMode is
\* true applies its local mutation in that step and issues no remote call, so
\* that no continuation exists that could roll it back.
C8_OfflineLocalOnly ==
    [][(lastEvent' \in Commands /\ isOfflineMode) =>
         /\ inflight' = inflight
         /\ lastEvent' = "createNewNote" =>
              /\ LocalId(nextOp) \in Ids(notes')
              /\ Len(notes') = Len(notes) + 1
         /\ lastEvent' = "deleteNoteById" =>
              /\ Len(notes') = Len(notes) - 1
              /\ \E id \in Ids(notes) : id \notin Ids(notes')
         /\ lastEvent' = "updateSelectedNote" =>
              /\ Len(notes') = Len(notes)
              /\ \E patch \in Patches :
                   Find(notes', selectedNoteId) =
                     [Find(notes, selectedNoteId) EXCEPT
                        ![patch.field] = patch.value, !.updatedAt = clock']]_vars

C8_Witness ==
    /\ isOfflineMode
    /\ lastEvent = "deleteNoteById"
    /\ inflight = {}
    /\ Len(notes) = 1

\* C9: when the list() of the initial load resolves with L before teardown,
\* the status becomes ready, isOfflineMode false and the working set holds
\* exactly the notes of L; no step issues a second list() for the initial load.
C9_InitialLoadSuccess ==
    [][/\ \A r \in inflight : \A list \in ListResults :
            loadFulfilled(r, list) =>
              /\ status' = "ready"
              /\ ~isOfflineMode'
              /\ SameNotes(notes', list)
       /\ \A r \in inflight' : r.kind = "load" => r \in inflight
       /\ Cardinality({r \in inflight : r.kind = "load"}) <= 1]_vars

C9_Witness ==
    /\ lastEvent = "loadFulfilled"
    /\ status = "ready"
    /\ Len(notes) = 2
    /\ \E r \in inflight : r.kind = "create"

\* C10: when the list() of the initial load fails with BackendUnavailable,
\* the status is ready, isOfflineMode is true and the working set is the two
\* seed notes titled "Welcome" and "Tip".
C10_InitialLoadFallback ==
    lastEvent = "loadUnavailable" =>
        /\ status = "ready"
        /\ isOfflineMode
        /\ Len(notes) = 2
        /\ {notes[i].title : i \in 1 .. Len(notes)} = {"Welcome", "Tip"}
        /\ \A i \in 1 .. Len(notes) : \E idx \in {0, 1} : notes[i].id = SeedId(1, idx)

C10_Witness ==
    /\ lastEvent = "loadUnavailable"
    /\ \E r \in inflight : r.kind = "create"

\* C11: when the list() of the initial load or of retry() fails with an error
\* that is not BackendUnavailable, the status becomes error, errorMessage is
\* the message of the failure, and the working set and isOfflineMode are as
\* before (no seed notes).
C11_ListFailure ==
    [][\A r \in inflight : \A e \in ApiErrors :
         (loadRejected(r, e) \/ retryRejected(r, e)) =>
           /\ status' = "error"
           /\ errorMessage' = e.message
           /\ notes' = notes
           /\ isOfflineMode' = isOfflineMode]_vars

C11_Witness ==
    /\ lastEvent = "retryFailed"
    /\ status = "error"
    /\ errorMessage \in {e.message : e \in ApiErrors}
    /\ Len(notes) > 0

\* C12: retry() puts the status to loading; when its list() resolves with L
\* the status goes from loading to ready, isOfflineMode is false and the
\* working set holds exactly the notes of L.
C12_RetrySuccess ==
    [][/\ lastEvent' = "retry" => status' = "loading"
       /\ \A r \in inflight : \A list \in ListResults :
            retryFulfilled(r, list) =>
              /\ status = "loading"
              /\ status' = "ready"
              /\ ~isOfflineMode'
              /\ SameNotes(notes', list)]_vars

\* A note made locally before the retry resolved is gone: its create call is
\* still pending.
C12_Witness ==
    /\ lastEvent = "retryFulfilled"
    /\ status = "ready"
    /\ Len(notes) = 2
    /\ \E r \in inflight : r.kind = "create" /\ r.id \notin Ids(notes)

\* C13: when the list() of retry() fails with BackendUnavailable, the status
\* becomes ready, isOfflineMode is true, a non-empty working set is left as
\* it is, an empty one becomes the two seed notes, and a notice is set.
C13_RetryStillUnavailable ==
    [][\A r \in inflight :
         retryRejected(r, BackendUnavailableError) =>
           /\ status' = "ready"
           /\ isOfflineMode'
           /\ Len(notes) # 0 => notes' = notes
           /\ Len(notes) = 0 =>
                /\ Len(notes') = 2
                /\ {notes'[i].title : i \in 1 .. Len(notes')} = {"Welcome", "Tip"}
                /\ \A i \in 1 .. Len(notes') :
                     \E idx \in {0, 1} : notes'[i].id = SeedId(r.op, idx)
           /\ toastMessage' = "Backend still unavailable. Staying in local mode."
           /\ toastArmed']_vars

C13_Witness ==
    /\ lastEvent = "retryUnavailable"
    /\ Len(notes) = 1
    /\ \E k \in 1 .. MaxOps : notes[1].id = LocalId(k)
    /\ isOfflineMode

\* C14: every change of the status is loading -> ready, loading -> error, or
\* made by retry() from error or ready to loading; from error the status
\* changes in no step but retry(), whatever command runs and whatever call
\* resolves.
C14_PhaseMachine ==
    [][/\ status' # status =>
            \/ status = "loading" /\ status' \in {"ready", "error"}
            \/ /\ lastEvent' = "retry"
               /\ status \in {"error", "ready"}
               /\ status' = "loading"
       /\ (status = "error" /\ lastEvent' # "retry") => status' = "error"]_vars

\* A call resolves in the error status and the status stays.
C14_Witness ==
    /\ status = "error"
    /\ lastEvent \in {"createFulfilled", "createFailed", "createUnavailable"}

Newest(list, id) ==
    \A i \in 1 .. Len(list) : Find(list, id).updatedAt >= list[i].updatedAt

\* C15: after every step, in the ready status the selection is the id of a
\* note of the working set, or null with an empty working set; and when the
\* handler of the step left no id or an absent id selected, the selection is
\* a note of greatest updatedAt.
C15_SelectionMaintained ==
    [][status' = "ready" =>
         /\ \/ selectedNoteId' \in Ids(notes')
            \/ selectedNoteId' = null /\ notes' = << >>
         /\ LET left ==
                  CASE lastEvent' = "createNewNote" -> LocalId(nextOp)
                    [] lastEvent' = "selectNote" -> selectedNoteId'
                    [] lastEvent' = "createFulfilled" ->
                         IF \E r \in inflight \ inflight' : ServerId(r.op) \in Ids(notes')
                         THEN ServerId((CHOOSE r \in inflight \ inflight' : TRUE).op)
                         ELSE null
                    [] lastEvent' = "createFailed" -> null
                    [] lastEvent' = "deleteNoteById" ->
                         IF selectedNoteId \in Ids(notes') THEN selectedNoteId ELSE null
                    [] OTHER -> selectedNoteId
            IN IF left # null /\ left \in Ids(notes')
               THEN selectedNoteId' = left
               ELSE notes' # << >> => Newest(notes', selectedNoteId')]_vars

\* The failed create cleared the selection and the effect picked n2.
C15_Witness ==
    /\ status = "ready"
    /\ lastEvent = "createFailed"
    /\ Len(notes) = 2
    /\ selectedNoteId = N2.id

\* C16: no two notes of the working set have the same id.
C16_IdsUnique ==
    \A i, j \in 1 .. Len(notes) : notes[i].id = notes[j].id => i = j

\* A delete was rolled back while the working set held other notes.
C16_Witness ==
    /\ lastEvent = "deleteFailed"
    /\ Len(notes) >= 2
    /\ \E r \in inflight : r.kind = "create"

\* C17 as claimed: the optimistic patch of an update, and the reconciliation
\* with the entity returned by a successful update or create, leave the
\* note's updatedAt greater than or equal to what it was.
C17_Original ==
    [][/\ lastEvent' = "updateSelectedNote" =>
            Find(notes', selectedNoteId).updatedAt >= Find(notes, selectedNoteId).updatedAt
       /\ \A r \in inflight :
            /\ \A updated \in Updated(r) :
                 (updateFulfilled(r, updated) /\ r.id \in Ids(notes)) =>
                   Find(notes', r.id).updatedAt >= Find(notes, r.id).updatedAt
            /\ \A created \in Created(r) :
                 (createFulfilled(r, created) /\ r.id \in Ids(notes)) =>
                   Find(notes', created.id).updatedAt >= Find(notes, r.id).updatedAt]_vars

----------------------------------------------------------------------------
(* Properties of the REST client *)

\* The attempt ended in a failure the loop retries: a 5xx status or a
\* network-signature failure.
RetriableFailure(e) ==
    /\ e.type = "error"
    /\ \/ e.class = BackendUnavailableError.class
       \/ e.class = "ApiError" /\ e.status >= 500 /\ e.status <= 599

AbortedOutcome(e) ==
    /\ e.type = "error"
    /\ e.class = "ApiError"
    /\ e.message \in {"Request aborted or timed out.",
                      "Request aborted or timed out after retries."}
    /\ ~e.retriable

\* C18: a call never makes more than 1 + max(0, retries) attempts and makes
\* none after a successful one; without abort, with retries >= 0, a call
\* whose attempts all got a 5xx status or a network failure has made exactly
\* retries + 1 attempts when it ends, and it ends in failure; a call whose
\* first attempt got a failure status outside 500..599 ends with that one
\* attempt.
C18_RetryClassification ==
    /\ fetches <= 1 + Max(0, call.retries)
    /\ \A i \in 1 .. Len(log) :
         log[i].type = "ok" => (i = Len(log) /\ pc = "done" /\ fetches = i)
    /\ (/\ pc = "done"
        /\ ~aborted
        /\ call.retries >= 0
        /\ log # << >>
        /\ \A i \in 1 .. Len(log) : RetriableFailure(log[i])) =>
          /\ fetches = call.retries + 1
          /\ Len(log) = fetches
          /\ outcome.type = "error"
    /\ (/\ log # << >>
        /\ log[1].type = "error"
        /\ log[1].class = "ApiError"
        /\ log[1].status # 0
        /\ ~(log[1].status >= 500 /\ log[1].status <= 599)) =>
          /\ fetches = 1
          /\ pc = "done"
          /\ outcome = log[1]

\* Three attempts with retries = 2, the first two of different retriable
\* kinds.
C18_Witness ==
    /\ pc = "done"
    /\ ~aborted
    /\ call.retries = 2
    /\ fetches = 3
    /\ log[1].class = BackendUnavailableError.class
    /\ log[2].status = 500
    /\ outcome.status = 599
    /\ slept = <<250, 500>>

\* C19: an attempt that fails while the controller's signal is aborted ends
\* with the aborted ApiError, which is not retriable, whatever fetch() or the
\* response gave; that attempt is the last one, the call ends with that
\* error, and no attempt succeeds after it.
C19_AbortNeverRetried ==
    [][/\ (/\ Len(log') = Len(log) + 1
           /\ aborted
           /\ log'[Len(log')].type = "error") =>
             AbortedOutcome(log'[Len(log')])
       /\ \A i \in 1 .. Len(log') :
            AbortedOutcome(log'[i]) =>
              /\ i = Len(log')
              /\ fetches' = i
              /\ pc' = "done"
              /\ outcome' = log'[i]
              /\ slept' = slept]_vars

\* The second attempt got a 500 and the abort came while its body was read,
\* with one retry left.
C19_Witness ==
    /\ pc = "done"
    /\ aborted
    /\ call.retries = 2
    /\ Len(log) = 2
    /\ log[1].class = BackendUnavailableError.class
    /\ resStatus = 500
    /\ AbortedOutcome(outcome)
    /\ outcome.message = "Request aborted or timed out after retries."

\* C20 as claimed: getNote, updateNote and deleteNote called with an empty
\* or missing id, and createNote and updateNote called with a payload that
\* is not a non-null record, never call fetch(), never sleep, and end in
\* failure.
C20_Original ==
    (\/ HasId(call.method) /\ call.id \in {"", undefined}
     \/ HasPayload(call.method) /\ call.payload # "object") =>
        /\ fetches = 0
        /\ slept = << >>
        /\ pc = "done" => outcome.type = "error"

Last(seq) == seq[Len(seq)]

\* C21 as claimed: after a successful exchange listNotes fails unless the
\* body is a sequence, getNote, createNote and updateNote fail unless it is
\* a record, with an ApiError that is not retriable and after which no
\* attempt is made; deleteNote succeeds whatever the body.
C21_Original ==
    (pc = "done" /\ log # << >> /\ Last(log).type = "ok") =>
        /\ fetches = Len(log)
        /\ (call.method = "listNotes" /\ Last(log).data # "array") =>
             (outcome.type = "error" /\ outcome.class = "ApiError" /\ ~outcome.retriable)
        /\ (call.method \in {"getNote", "createNote", "updateNote"}
            /\ Last(log).data # "object") =>
             (outcome.type = "error" /\ outcome.class = "ApiError" /\ ~outcome.retriable)
        /\ call.method = "deleteNote" => outcome.type = "ok"

\* C27: the k-th delay of a call (k from 0) is retryBaseDelayMs * 2^k; a
\* delay is only ever followed by an attempt: there are as many delays as
\* attempts while the call sleeps, and one less otherwise, so none comes
\* before the first attempt and none after the last.
C27_ExponentialBackoff ==
    /\ \A k \in 0 .. Len(slept) - 1 : slept[k + 1] = call.retryBaseDelayMs * 2 ^ k
    /\ pc = "sleeping" => Len(slept) = fetches
    /\ (pc \in {"fetching", "body", "done"} /\ fetches > 0) => Len(slept) = fetches - 1
    /\ fetches = 0 => slept = << >>

C27_Witness ==
    /\ pc = "done"
    /\ outcome.type = "ok"
    /\ call.retryBaseDelayMs = 100
    /\ slept = <<100, 200>>

\* C28: a call gets its outcome once, in the step that ends it, and no
\* attempt follows; the outcome of a call that ends on a failed attempt is
\* the error of that last attempt: an ApiError when it got a 5xx status, the
\* BackendUnavailableError when it was a network failure.
C28_FinalOutcomeOnly ==
    [][/\ outcome' # outcome => (outcome = NoOutcome /\ pc # "done" /\ pc' = "done")
       /\ pc = "done" => (pc' = "done" /\ fetches' = fetches /\ log' = log)
       /\ (pc # "done" /\ pc' = "done" /\ log' # << >> /\ Last(log').type = "error") =>
            /\ outcome' = Last(log')
       /\ (pc = "body" /\ pc' = "done" /\ ~aborted
           /\ resStatus >= 500 /\ resStatus <= 599) =>
            /\ outcome'.class = "ApiError"
            /\ outcome'.status = resStatus
            /\ fetches' = 1 + Max(0, call.retries)
       /\ (pc' = "done" /\ ~aborted /\ fetchRejected("TypeError")) =>
            /\ outcome'.class = BackendUnavailableError.class
            /\ fetches' = 1 + Max(0, call.retries)]_vars

\* The retries are used up, on a 5xx status and then on network failures.
C28_Witness ==
    /\ pc = "done"
    /\ call.retries = 2
    /\ fetches = 3
    /\ log[1].status = 500
    /\ log[2].class = BackendUnavailableError.class
    /\ outcome.class = BackendUnavailableError.class

\* C29: every call of a client method ends, with a result or a failure,
\* having made at most 1 + max(0, retries) attempts.
C29_Terminates ==
    <>(/\ pc = "done"
       /\ outcome # NoOutcome
       /\ fetches <= 1 + Max(0, call.retries))

\* A call that ended after all its attempts and delays.
C29_Witness ==
    /\ pc = "done"
    /\ call.retries = 2
    /\ fetches = 3
    /\ Len(slept) = 2
    /\ outcome.type = "ok"

----------------------------------------------------------------------------
(* Properties of the App, continued *)

AbortedError ==
    [class |-> "ApiError", message |-> "Request aborted or timed out."]

\* C22 as claimed: when the remote call of an operation ends aborted (the
\* client's ApiError of an abort or a timeout), the status does not move to
\* error and no notice is raised.
C22_Original ==
    [][\A r \in inflight :
         (\/ loadRejected(r, AbortedError)
          \/ retryRejected(r, AbortedError)
          \/ createRejected(r, AbortedError)
          \/ updateRejected(r, AbortedError)
          \/ deleteRejected(r, AbortedError)) =>
           /\ status' = "error" => status = "error"
           /\ toastMessage' = toastMessage
           /\ toastArmed' = toastArmed]_vars

\* C23: the teardown aborts the controller of the initial load, and once
\* the component is torn down the settling of that load (of any call)
\* changes none of status, errorMessage, notes, isOfflineMode,
\* selectedNoteId.
C23_TeardownCancelsLoad ==
    [][/\ lastEvent' = "unmount" => (controllerAborted' /\ ~mounted')
       /\ ~mounted =>
            /\ controllerAborted
            /\ UNCHANGED <<status, errorMessage, notes, isOfflineMode,
                           selectedNoteId>>
       /\ \A r \in inflight :
            (r.kind = "load" /\ r \notin inflight' /\ controllerAborted) =>
               /\ lastEvent' = "settledUnmounted"
               /\ UNCHANGED <<status, errorMessage, notes, isOfflineMode,
                              selectedNoteId>>]_vars

\* The load settled after the teardown and the status is still loading.
C23_Witness ==
    /\ ~mounted
    /\ controllerAborted
    /\ lastEvent = "settledUnmounted"
    /\ status = "loading"
    /\ \A r \in inflight : r.kind # "load"
    /\ Len(notes) = 1

\* The last update of note id the remote confirmed, if any.
LastConfirmed(id) ==
    LET s == {i \in 1 .. Len(confirmed) : confirmed[i].id = id}
    IN IF s = {} THEN {} ELSE {confirmed[CHOOSE i \in s : \A j \in s : j <= i]}

\* C24 as claimed: when a failed update of a note is rolled back, the note
\* does not get back the title and content captured by the failed command
\* if the remote has since confirmed, for a later update of that note,
\* other values.
C24_Original ==
    [][\A r \in inflight : \A e \in ApiErrors :
         (updateRejected(r, e) /\ r.id \in Ids(notes)) =>
           \A c \in LastConfirmed(r.id) :
             LET n == Find(notes', r.id)
             IN ~(/\ r.op < c.op
                  /\ n.title = r.previous.title
                  /\ n.content = r.previous.content
                  /\ (n.title # c.title \/ n.content # c.content))]_vars

\* C26: a non-empty errorMessage implies the error status, and retry(),
\* which enters loading, clears errorMessage.
C26_ErrorMessageOnlyInError ==
    [][/\ errorMessage # "" => status = "error"
       /\ errorMessage' # "" => status' = "error"
       /\ status' = "loading" => errorMessage' = ""
       /\ lastEvent' = "retry" => (status' = "loading" /\ errorMessage' = "")]_vars

\* retry() ran from the error status, where a message was shown.
C26_Witness ==
    /\ lastEvent = "retry"
    /\ status = "loading"
    /\ errorMessage = ""
    /\ \E r \in inflight : r.kind = "retry"

\* C30: when an update of a note succeeds, the note of the working set, if
\* still there, becomes the entity the remote returned, whatever other
\* update of that note resolved before and whichever command was issued
\* first.
C30_LastResolvedWins ==
    [][\A r \in inflight : \A updated \in Updated(r) :
         (updateFulfilled(r, updated) /\ r.id \in Ids(notes)) =>
           /\ Cardinality(WithId(notes', r.id)) = 1
           /\ Find(notes', r.id) = updated]_vars

\* Two updates of n1 succeeded, the one issued second first; the note holds
\* what the remote returned for the one issued first.
C30_Witness ==
    /\ lastEvent = "updateFulfilled"
    /\ Len(confirmed) = 2
    /\ confirmed[1].id = N1.id /\ confirmed[2].id = N1.id
    /\ confirmed[1].op > confirmed[2].op
    /\ confirmed[1].content # confirmed[2].content
    /\ Find(notes, N1.id).title = confirmed[2].title
    /\ Find(notes, N1.id).content = confirmed[2].content

----------------------------------------------------------------------------
(* Display title *)

\* The positions of s that hold something else than white space.
Inked(s) == {i \in 1 .. Len(s) : s[i] \notin WhiteSpace}

Least(S) == CHOOSE i \in S : \A j \in S : i <= j
Greatest(S) == CHOOSE i \in S : \A j \in S : i >= j

\* s without the white space at its ends, for s with something else in it.
Trimmed(s) == SubSeq(s, Least(Inked(s)), Greatest(Inked(s)))

\* The positions of the line feeds of s, and the end of s.
Breaks(s) == {i \in 1 .. Len(s) : s[i] = "\n"} \cup {Len(s) + 1}

\* The line of s that ends at the break b.
LineEndingAt(s, b) ==
    LET starts == {i + 1 : i \in {j \in Breaks(s) \cup {0} : j < b}}
    IN SubSeq(s, Greatest(starts), b - 1)

\* The first 40 characters of s.
Cut(s) == [i \in 1 .. (IF Len(s) < SliceEnd THEN Len(s) ELSE SliceEnd) |-> s[i]]

\* The display title as the statement has it, taking a line for non-empty
\* when it holds something else than white space.
TitleFromNonEmptyLine(n) ==
    LET title == OrEmpty(n, "title")
        content == OrEmpty(n, "content")
        full == {b \in Breaks(content) : Inked(LineEndingAt(content, b)) # {}}
    IN IF Inked(title) # {} THEN Trimmed(title)
       ELSE IF full # {} THEN Cut(Trimmed(LineEndingAt(content, Least(full))))
       ELSE UntitledNote

\* The display title from the first line of the content only.
TitleFromFirstLine(n) ==
    LET title == OrEmpty(n, "title")
        content == OrEmpty(n, "content")
        first == LineEndingAt(content, Least(Breaks(content)))
    IN IF Inked(title) # {} THEN Trimmed(title)
       ELSE IF Inked(first) # {} THEN Cut(Trimmed(first))
       ELSE UntitledNote

\* C25 as stated: the display title of every note is a non-empty string: the
\* trimmed title when that is non-empty, else the first non-empty line of the
\* content cut to 40 characters when the content has a non-empty line, else
\* "Untitled note".
C25_Original ==
    \A i \in 1 .. Len(shown) :
        /\ Len(shown[i]) > 0
        /\ shown[i] = TitleFromNonEmptyLine(note)

\* C25 amended: the display title of every note is a non-empty string: the
\* trimmed title when that is non-empty, else the trimmed first line of the
\* content (what precedes its first line feed) cut to 40 characters when that
\* line holds something else than white space, else "Untitled note"; later
\* lines of the content are never used.
C25_DisplayTitle ==
    \A i \in 1 .. Len(shown) :
        /\ Len(shown[i]) > 0
        /\ shown[i] = TitleFromFirstLine(note)

\* A note without title whose first line is longer than 40 characters got
\* the first 40 characters of that line as its title.
C25_Witness ==
    /\ Len(shown) = 1
    /\ "title" \in DOMAIN note /\ note.title = << >>
    /\ "content" \in DOMAIN note
    /\ Len(note.content) > SliceEnd + 1
    /\ note.content[1] = " "
    /\ \A k \in 2 .. SliceEnd + 2 : note.content[k] = "a"
    /\ shown[1] = Run(SliceEnd)

----------------------------------------------------------------------------
(* Overlapping creates *)

\* The creates confirmed earlier while the call of r was pending.
Overlapping(r) ==
    {reconciled[i] : i \in {j \in 1 .. Len(reconciled) : r.op \in reconciled[j].pending}}

\* Every note of list whose id is not id is in list2 as often as in list.
OthersKept(list, id, list2) ==
    \A n \in Range(list) : n.id # id => Count(list2, n) = Count(list, n)

\* C31 as stated: when two createNewNote commands are issued before either
\* call resolves and both succeed, each resolution replaces the temporary
\* note of its own call by the returned entity, and after the second one the
\* working set holds each of the two server notes once and neither temporary
\* note, whichever call resolves first.
C31_Original ==
    [][\A r \in inflight : \A created \in Created(r) :
         createFulfilled(r, created) =>
           /\ (Reconciled(r, inflight).pending # {} \/ Overlapping(r) # {}) =>
                /\ Cardinality(WithId(notes', created.id)) = 1
                /\ Find(notes', created.id) = created
                /\ r.id \notin Ids(notes')
           /\ \A first \in Overlapping(r) :
                /\ Cardinality(WithId(notes', ServerId(first.op))) = 1
                /\ LocalId(first.op) \notin Ids(notes')]_vars

\* C31 amended: the same for temporary notes that are still in the working
\* set when their calls resolve: the resolution puts the returned entity in
\* the place of the temporary note of its own call and keeps every other
\* note, the temporary note of the other call included; when the server note
\* of the first resolution is still there at the second, the working set
\* then holds each of the two server notes once and neither temporary note.
\* The order of the resolutions and the positions of the notes play no role.
C31_OverlappingCreates ==
    [][\A r \in inflight : \A created \in Created(r) :
         (createFulfilled(r, created) /\ r.id \in Ids(notes)) =>
           /\ (Reconciled(r, inflight).pending # {} \/ Overlapping(r) # {}) =>
                /\ Cardinality(WithId(notes', created.id)) = 1
                /\ Find(notes', created.id) = created
                /\ r.id \notin Ids(notes')
                /\ Len(notes') = Len(notes)
                /\ OthersKept(notes, r.id, notes')
           /\ \A first \in Overlapping(r) :
                ServerId(first.op) \in Ids(notes) =>
                  /\ Cardinality(WithId(notes', ServerId(first.op))) = 1
                  /\ LocalId(first.op) \notin Ids(notes')]_vars

\* Two creates were pending together, the one issued last was confirmed
\* first, and the working set holds the two server notes and no temporary
\* note.
C31_Witness ==
    /\ Len(reconciled) = 2
    /\ reconciled[1].op > reconciled[2].op
    /\ reconciled[1].pending = {reconciled[2].op}
    /\ Ids(notes) = {ServerId(reconciled[1].op), ServerId(reconciled[2].op)}
    /\ Len(notes) = 2

----------------------------------------------------------------------------
(* Transient notice *)

\* The firings that cleared a notice on display.
Clearings == {i \in 1 .. Len(fired) : fired[i].shown}

\* C32: a notice on display is only cleared by the timer set for it, never
\* by the timer of an earlier notice (raising a notice cancels the pending
\* timer); a timer fires at most once and clears at most one notice, a notice
\* is cleared by a timer at most once; and every notice on display is in the
\* end cleared, by its timer or by a dismissal, or replaced by a later one,
\* as long as the component is mounted.
C32_NoticeExpiry ==
    /\ [](/\ \A i \in Clearings : fired[i].timer = fired[i].notice
          /\ \A i, j \in 1 .. Len(fired) : fired[i].timer = fired[j].timer => i = j
          /\ \A i, j \in Clearings : fired[i].notice = fired[j].notice => i = j
          /\ Cardinality(timers) <= 1
          /\ timers \subseteq {toastTimeoutRef})
    /\ \A k \in 1 .. MaxNotices :
         (notice = k /\ toastMessage # "")
            ~> (toastMessage = "" \/ notice # k \/ ~mounted)

\* A second notice was raised while the timer of the first was pending, and
\* it was cleared by its own timer, the only one that fired.
C32_Witness ==
    /\ notice = 2
    /\ Len(fired) = 1
    /\ fired[1].timer = 2 /\ fired[1].shown
    /\ toastMessage = ""
    /\ timers = {}
    /\ mounted

----------------------------------------------------------------------------
(* Order of the working set *)

Sorted(list) ==
    \A i, j \in 1 .. Len(list) : i < j => list[i].updatedAt >= list[j].updatedAt

\* C33: in every reachable state the working set is sorted by updatedAt,
\* greatest first, whatever the interleaving of load, retry, create, update,
\* delete and of their reconciliations and rollbacks.
C33_KeptSorted == Sorted(notes)

\* The remote confirmed an update of the note that was first with an older
\* updatedAt, and the note moved behind the other one.
C33_Witness ==
    /\ lastEvent = "updateFulfilled"
    /\ Len(notes) = 2
    /\ notes[1].id = N1.id
    /\ notes[2].id = N2.id
    /\ notes[2].updatedAt < N1.updatedAt
    /\ Len(confirmed) = 1 /\ confirmed[1].id = N2.id

----------------------------------------------------------------------------
(* Late successes *)

\* C34: when the call of a create or of an update resolves successfully and
\* its note (the temporary note of the create, the note of the update) is no
\* longer in the working set, removed by deleteNoteById while the call was
\* pending or otherwise, the working set is left as it is: no note is added.
C34_NoResurrection ==
    [][\A r \in inflight :
         /\ \A created \in Created(r) :
              (createFulfilled(r, created) /\ r.id \notin Ids(notes)) => notes' = notes
         /\ \A updated \in Updated(r) :
              (updateFulfilled(r, updated) /\ r.id \notin Ids(notes)) => notes' = notes]_vars

\* The update of a note was confirmed after the note was deleted, the call
\* of the delete still pending, and the note is not in the working set.
C34_Witness ==
    /\ lastEvent = "updateFulfilled"
    /\ Len(confirmed) = 1
    /\ confirmed[1].id \notin Ids(notes)
    /\ \E d \in inflight :
         d.kind = "delete" /\ d.id = confirmed[1].id /\ d.op > confirmed[1].op

----------------------------------------------------------------------------
(* Selection and the resolutions *)

\* The call r settles, with a success or with a failure.
Settles(r) ==
    \/ \E created \in Created(r) : createFulfilled(r, created)
    \/ \E updated \in Updated(r) : updateFulfilled(r, updated)
    \/ deleteFulfilled(r)
    \/ \E e \in Errors : createRejected(r, e) \/ updateRejected(r, e) \/ deleteRejected(r, e)

\* C35 as stated: when the call of a create, update or delete for a note A
\* settles while another note B is selected, B being in the working set
\* before and after, B is still selected afterwards.
C35_Original ==
    [][\A r \in inflight :
         (/\ Settles(r)
          /\ selectedNoteId # null
          /\ selectedNoteId # r.id
          /\ selectedNoteId \in Ids(notes)
          /\ selectedNoteId \in Ids(notes'))
            => selectedNoteId' = selectedNoteId]_vars

====
